---- MODULE Spec2Model ----
(***************************************************************************)
(* A model of src/languages/star-prnt.js: the class LanguageStarPrnt, whose *)
(* methods turn one printing intent each into an array of StarPRNT bytes.   *)
(*                                                                          *)
(* The class has no fields.  The state of the model is that of a caller     *)
(* which invokes the methods one after the other and appends what each      *)
(* call returns to one stream, plus a record of the last call.              *)
(***************************************************************************)
EXTENDS Integers, Sequences, FiniteSets, TLC

VARIABLES
    ncalls,     \* number of calls made so far
    stream,     \* concatenation of the arrays returned so far
    prev,       \* the stream as it was before the last call
    last        \* the last call: method, arguments, whether it threw and
                \* the array it had built and discarded if it did

vars == <<ncalls, stream, prev, last>>

(***************************************************************************)
(* JavaScript values.  An argument whose type the code inspects (typeof,   *)
(* ===, ==, in, truthiness, property lookup) is one of these records.      *)
(***************************************************************************)
Undefined == [t |-> "undefined"]
Null == [t |-> "null"]
NaN == [t |-> "number", nan |-> TRUE]
Num(n) == [t |-> "number", n |-> n]
Str(s) == [t |-> "string", s |-> s]
\* An array holding one string, ['s']: an object whose ToPrimitive is s.
Arr(s) == [t |-> "object", arr |-> s]
\* Object.create(null): an object with no toString/valueOf.
BareObject == [t |-> "object", bare |-> TRUE]
Bool(b) == [t |-> "boolean", b |-> b]

IsUndefined(v) == v.t = "undefined"
IsInteger(v) == v.t = "number" /\ "n" \in DOMAIN v
IsNaN(v) == v.t = "number" /\ "nan" \in DOMAIN v
IsString(v) == v.t = "string"
IsArr(v) == v.t = "object" /\ "arr" \in DOMAIN v
IsBare(v) == v.t = "object" /\ "bare" \in DOMAIN v

\* typeof v
TypeOf(v) == IF v.t = "null" THEN "object" ELSE v.t

\* ToBoolean(v): the test of `if (value)` and of `device ? a : b`.
Truthy(v) ==
    CASE v.t = "undefined" -> FALSE
      [] v.t = "null" -> FALSE
      [] IsNaN(v) -> FALSE
      [] IsInteger(v) -> v.n # 0
      [] IsString(v) -> v.s # ""
      [] v.t = "boolean" -> v.b
      [] OTHER -> TRUE

\* An array element that is not an integer is written as a code below every
\* integer the methods can compute from the arguments of the model.
ElemObject == -1000001
ElemNaN == -1000002

\* The array element a JavaScript number becomes.
ElemOf(v) == IF IsNaN(v) THEN ElemNaN ELSE v.n

\* The decimal digits, for Number-to-String of the small keys the tables hold.
Digit(n) ==
    CASE n = 0 -> "0" [] n = 1 -> "1" [] n = 2 -> "2" [] n = 3 -> "3"
      [] n = 4 -> "4" [] n = 5 -> "5" [] n = 6 -> "6" [] n = 7 -> "7"
      [] n = 8 -> "8" [] n = 9 -> "9" [] OTHER -> "number"

\* ToPropertyKey(v): the string under which `obj[v]` and `v in obj` look.
ToPropertyKey(v) ==
    CASE IsString(v) -> v.s
      [] IsInteger(v) -> Digit(v.n)
      [] IsNaN(v) -> "NaN"
      [] IsArr(v) -> v.arr
      [] v.t = "undefined" -> "undefined"
      [] v.t = "null" -> "null"
      [] v.t = "boolean" -> IF v.b THEN "true" ELSE "false"
      [] OTHER -> "[object Object]"

\* Properties every object literal inherits from Object.prototype.
ObjectPrototypeKeys ==
    {"constructor", "toString", "toLocaleString", "valueOf", "hasOwnProperty",
     "isPrototypeOf", "propertyIsEnumerable", "__proto__",
     "__defineGetter__", "__defineSetter__", "__lookupGetter__",
     "__lookupSetter__"}

\* The outcome of a call: whether it threw, and the local array as it stood
\* when the method was left (by return or by throw).
Done(result) == [threw |-> FALSE, result |-> result]

\* A failed check written `return result` where the source has `throw`.
ReturnInsteadOfThrow(result) == [threw |-> FALSE, result |-> result]

Throw(result) == [threw |-> TRUE, result |-> result]

(***************************************************************************)
(* Text and state control                                                  *)
(***************************************************************************)
initialize == Done(<<27, 64, 24>>)

font(type) ==
    LET value == IF IsString(type) /\ type.s = "C" THEN 2
                 ELSE IF IsString(type) /\ type.s = "B" THEN 1
                 ELSE 0
    IN  Done(<<27, 30, 70, value>>)

align(value) ==
    LET a == IF IsString(value) /\ value.s = "center" THEN 1
             ELSE IF IsString(value) /\ value.s = "right" THEN 2
             ELSE 0
    IN  Done(<<27, 29, 97, a>>)

bold(value) == Done(<<27, IF Truthy(value) THEN 69 ELSE 70>>)

underline(value) == Done(<<27, 45, IF Truthy(value) THEN 1 ELSE 0>>)

italic(value) == Done(<<>>)

invert(value) == Done(<<27, IF Truthy(value) THEN 52 ELSE 53>>)

size(width, height) == Done(<<27, 105, height - 1, width - 1>>)

codepage(value) == Done(<<27, 29, 116, value>>)

flush == Done(<<27, 29, 80, 48, 27, 29, 80, 49>>)

(***************************************************************************)
(* Cut and pulse                                                           *)
(***************************************************************************)
\* v == s for a string s that is no numeric literal: a string compares by
\* value, an object is first converted to a primitive (an array to the join
\* of its elements), and every other type is unequal to such a string.
LooseEq(v, s) ==
    CASE IsString(v) -> v.s = s
      [] IsArr(v) -> v.arr = s
      [] OTHER -> FALSE

\* `value == 'partial'` throws a TypeError for an object that cannot be
\* converted to a primitive.
cut(value) ==
    IF IsBare(value) THEN Throw(<<>>)
    ELSE Done(<<27, 100, IF LooseEq(value, "partial") THEN 1 ELSE 0>>)

\* Math.round(n / 10) for an integer n: halves round towards +Infinity.
MathRound10(n) == (n + 5) \div 10

MathMin(a, b) == IF a < b THEN a ELSE b

\* PulseByte with the cap taken as a wrap into seven bits.
PulseByteWrapped(x) ==
    IF IsNaN(x) THEN 0 ELSE (MathRound10(x.n) % 128) % 256

\* Math.min(127, Math.round(x / 10)) & 0xff, for x a number: NaN stays NaN
\* through round and min, and NaN & 0xff is 0.
PulseByte(x) ==
    IF IsNaN(x) THEN 0 ELSE MathMin(127, MathRound10(x.n)) % 256

pulse(device, on, off) ==
    LET dev == IF IsUndefined(device) THEN Num(0) ELSE device
        on1 == IF IsUndefined(on) THEN Num(200) ELSE on
        off1 == IF IsUndefined(off) THEN Num(200) ELSE off
    IN  Done(<<27, 7, PulseByte(on1), PulseByte(off1),
               IF Truthy(dev) THEN 26 ELSE 7>>)

(***************************************************************************)
(* Barcode                                                                 *)
(***************************************************************************)
\* CodepageEncoder.encode(value, charset), the external codec: one byte per
\* UTF-16 code unit of value, an ASCII unit as itself.  The values of this
\* model are ASCII; what the codec answers for another unit is its own
\* business and stands here as '?'.
Encode(value, charset) ==
    [i \in 1..Len(value) |-> IF value[i] < 128 THEN value[i] ELSE 63]

symbologies ==
    [k \in {"upce", "upca", "ean8", "ean13", "code39", "itf", "code128",
            "code93", "nw-7", "gs1-128", "gs1-databar-omni",
            "gs1-databar-truncated", "gs1-databar-limited",
            "gs1-databar-expanded"} |->
        CASE k = "upce" -> 0 [] k = "upca" -> 1 [] k = "ean8" -> 2
          [] k = "ean13" -> 3 [] k = "code39" -> 4 [] k = "itf" -> 5
          [] k = "code128" -> 6 [] k = "code93" -> 7 [] k = "nw-7" -> 8
          [] k = "gs1-128" -> 9 [] k = "gs1-databar-omni" -> 10
          [] k = "gs1-databar-truncated" -> 11
          [] k = "gs1-databar-limited" -> 12
          [] k = "gs1-databar-expanded" -> 13]

\* `key in table` for an object literal `table`: own and inherited keys.
HasProperty(table, key) ==
    key \in DOMAIN table \/ key \in ObjectPrototypeKeys

\* table[key] as an array element, where HasProperty(table, key): an own
\* property is its number, an inherited one a function (or the prototype).
GetProperty(table, key) ==
    IF key \in DOMAIN table THEN table[key] ELSE ElemObject

barcode(value, symbology, height) ==
    IF IsBare(symbology) THEN Throw(<<>>)
    ELSE LET key == ToPropertyKey(symbology) IN
         IF ~HasProperty(symbologies, key) THEN Throw(<<>>)
         ELSE Done(<<27, 98, GetProperty(symbologies, key), 1, 3, height>>
                   \o Encode(value, "ascii") \o <<30>>)

(***************************************************************************)
(* QR code                                                                 *)
(***************************************************************************)
models == [k \in {"1", "2"} |-> IF k = "1" THEN 1 ELSE 2]

errorlevels ==
    [k \in {"l", "m", "q", "h"} |->
        CASE k = "l" -> 0 [] k = "m" -> 1 [] k = "q" -> 2 [] k = "h" -> 3]

\* size < 1 || size > 8: every comparison with NaN is false.
SizeOutOfRange(sz) == IF IsNaN(sz) THEN FALSE ELSE sz.n < 1 \/ sz.n > 8

\* QrData with the two length bytes in the other order.
QrDataBigEndian(bytes) ==
    <<27, 29, 121, 68, 49, 0, (Len(bytes) \div 256) % 256, Len(bytes) % 256>>
    \o bytes

\* The data sub-command: length & 0xff, (length >> 8) & 0xff, then the bytes.
QrData(bytes) ==
    <<27, 29, 121, 68, 49, 0, Len(bytes) % 256, (Len(bytes) \div 256) % 256>>
    \o bytes

qrcode(value, model, sz, errorlevel) ==
    LET m == IF IsUndefined(model) THEN Num(2) ELSE model
        s == IF IsUndefined(sz) THEN Num(6) ELSE sz
        e == IF IsUndefined(errorlevel) THEN Str("m") ELSE errorlevel
        r1 == <<27, 29, 121, 83, 48, GetProperty(models, ToPropertyKey(m))>>
        r2 == r1 \o <<27, 29, 121, 83, 50, ElemOf(s)>>
        r3 == r2 \o <<27, 29, 121, 83, 49,
                      GetProperty(errorlevels, ToPropertyKey(e))>>
    IN  IF IsBare(m) THEN Throw(<<>>)
        ELSE IF ~HasProperty(models, ToPropertyKey(m)) THEN Throw(<<>>)
        ELSE IF TypeOf(s) # "number" THEN Throw(r1)
        ELSE IF SizeOutOfRange(s) THEN Throw(r1)
        ELSE IF IsBare(e) THEN Throw(r2)
        ELSE IF ~HasProperty(errorlevels, ToPropertyKey(e)) THEN Throw(r2)
        ELSE Done(r3 \o QrData(Encode(value, "iso8859-1"))
                     \o <<27, 29, 121, 80>>)

(***************************************************************************)
(* Raster image                                                            *)
(***************************************************************************)
\* getPixel reading an index past the end of the buffer as black.
getPixelOutsideBlack(data, width, x, y) ==
    LET i == ((width * y) + x) * 4 IN
    IF i < 0 \/ i >= Len(data) THEN 1
    ELSE IF data[i + 1] > 0 THEN 0
    ELSE 1

\* getPixel(x, y) over image.data: the array holds four channel values per
\* pixel and the closure reads the first; an index past the end reads as
\* undefined.  (typeof d === 'undefined' || d > 0) ? 0 : 1
getPixel(data, width, x, y) ==
    LET i == ((width * y) + x) * 4 IN
    IF i < 0 \/ i >= Len(data) THEN 0
    ELSE IF data[i + 1] > 0 THEN 0
    ELSE 1

\* PackByte with the topmost row in the least significant bit.
PackByteLsbFirst(data, width, x, y0) ==
    getPixel(data, width, x, y0) + getPixel(data, width, x, y0 + 1) * 2
    + getPixel(data, width, x, y0 + 2) * 4 + getPixel(data, width, x, y0 + 3) * 8
    + getPixel(data, width, x, y0 + 4) * 16 + getPixel(data, width, x, y0 + 5) * 32
    + getPixel(data, width, x, y0 + 6) * 64 + getPixel(data, width, x, y0 + 7) * 128

\* getPixel(x, y0) << 7 | ... | getPixel(x, y0 + 7)
PackByte(data, width, x, y0) ==
    getPixel(data, width, x, y0) * 128 + getPixel(data, width, x, y0 + 1) * 64
    + getPixel(data, width, x, y0 + 2) * 32 + getPixel(data, width, x, y0 + 3) * 16
    + getPixel(data, width, x, y0 + 4) * 8 + getPixel(data, width, x, y0 + 5) * 4
    + getPixel(data, width, x, y0 + 6) * 2 + getPixel(data, width, x, y0 + 7)

\* One pass of the loop over s: the column bytes of the band that starts at
\* row y = 24 * s, framed.
Band(data, width, s) ==
    <<27, 88, width % 256, (width \div 256) % 256>>
    \o [k \in 1..(3 * width) |->
            PackByte(data, width, (k - 1) \div 3, s * 24 + 8 * ((k - 1) % 3))]
    \o <<10, 13>>

\* for (let s = 0; s < height / 24; s++)
RECURSIVE Bands(_, _, _, _)
Bands(data, width, height, s) ==
    IF s * 24 < height
    THEN Band(data, width, s) \o Bands(data, width, height, s + 1)
    ELSE <<>>

image(data, width, height, mode) ==
    Done(<<27, 48>> \o Bands(data, width, height, 0) \o <<27, 122, 1>>)

\* What the caller receives: the array of a call that returned, nothing of
\* a call that threw.
Returned(r) == IF r.threw THEN <<>> ELSE r.result

(***************************************************************************)
(* The caller: one action per method.  Each takes the number of calls the  *)
(* caller makes and the set of argument records it draws from.             *)
(***************************************************************************)
NoCall == [op |-> "none", args |-> <<>>, threw |-> FALSE, discarded |-> <<>>]

Init ==
    /\ ncalls = 0
    /\ stream = <<>>
    /\ prev = <<>>
    /\ last = NoCall

Call(op, a, r) ==
    /\ ncalls' = ncalls + 1
    /\ prev' = stream
    /\ stream' = stream \o Returned(r)
    /\ last' = [op |-> op, args |-> a, threw |-> r.threw,
                discarded |-> IF r.threw THEN r.result ELSE <<>>]

Initialize(lim) == ncalls < lim /\ Call("initialize", <<>>, initialize)

Font(lim, Args) ==
    ncalls < lim /\ \E a \in Args : Call("font", a, font(a.type))

Align(lim, Args) ==
    ncalls < lim /\ \E a \in Args : Call("align", a, align(a.value))

Bold(lim, Args) ==
    ncalls < lim /\ \E a \in Args : Call("bold", a, bold(a.value))

Underline(lim, Args) ==
    ncalls < lim /\ \E a \in Args : Call("underline", a, underline(a.value))

Italic(lim, Args) ==
    ncalls < lim /\ \E a \in Args : Call("italic", a, italic(a.value))

Invert(lim, Args) ==
    ncalls < lim /\ \E a \in Args : Call("invert", a, invert(a.value))

Size(lim, Args) ==
    ncalls < lim /\ \E a \in Args : Call("size", a, size(a.width, a.height))

Codepage(lim, Args) ==
    ncalls < lim /\ \E a \in Args : Call("codepage", a, codepage(a.value))

Flush(lim) == ncalls < lim /\ Call("flush", <<>>, flush)

Barcode(lim, Args) ==
    ncalls < lim /\ \E a \in Args :
        Call("barcode", a, barcode(a.value, a.symbology, a.height))

Qrcode(lim, Args) ==
    ncalls < lim /\ \E a \in Args :
        Call("qrcode", a, qrcode(a.value, a.model, a.size, a.errorlevel))

Image(lim, Args) ==
    ncalls < lim /\ \E a \in Args :
        Call("image", a, image(a.data, a.width, a.height, a.mode))

Cut(lim, Args) ==
    ncalls < lim /\ \E a \in Args : Call("cut", a, cut(a.value))

Pulse(lim, Args) ==
    ncalls < lim /\ \E a \in Args :
        Call("pulse", a, pulse(a.device, a.on, a.off))

(***************************************************************************)
(* Arguments                                                               *)
(***************************************************************************)
MaxCalls == 2        \* calls per behaviour of Spec
MaxValueLen == 2     \* length of a barcode value
MaxQrLen == 65536    \* length of the longest QR payload
MaxWidth == 2        \* width of an image drawn pixel by pixel
MaxHeight == 49      \* height of such an image
PulseRange == 16     \* pulse times -PulseRange..PulseRange, and a few more

\* A text of n ASCII digits.  (Concatenation makes these builders yield
\* tuples, which TLC indexes in constant time.)
Text(n) == [i \in 1..n |-> 48 + (i % 10)] \o <<>>
TEST == <<84, 69, 83, 84>>

\* image.data of the pixels whose first channel values are `reds`.
Rgba(reds) ==
    [i \in 1..(4 * Len(reds)) |->
        IF (i - 1) % 4 = 0 THEN reds[((i - 1) \div 4) + 1] ELSE 255] \o <<>>
Solid(n, c) == [i \in 1..n |-> c] \o <<>>
OneOf(n, p, c, bg) == [i \in 1..n |-> IF i = p THEN c ELSE bg] \o <<>>

SupportedNames == DOMAIN symbologies

\* Spec: every method, a few arguments each.
FontTypes ==
    {Undefined, Str("A"), Str("B"), Str("C"), Str("D"), Arr("B")}
AlignValues ==
    {Undefined, Str("left"), Str("center"), Str("right"), Str("justify"),
     Arr("center")}
CutValues ==
    {Undefined, Null, Str("full"), Str("partial"), Str("half"),
     Arr("partial"), BareObject}
Flags == {Undefined, Bool(TRUE), Bool(FALSE)}
TextSizes ==
    {[width |-> 1, height |-> 1], [width |-> 2, height |-> 3],
     [width |-> 0, height |-> 1], [width |-> 8, height |-> 257]}
Codepages == {0, 16, 255, 256}
FewBarcodes ==
    [value : {<<>>, <<49, 50>>},
     symbology : {Str("upca"), Str("code128"), Str("qr"),
                  Str("constructor")},
     height : {40, 256}]
FewQrcodes ==
    [value : {<<65>>}, model : {Undefined, Num(1), Num(3)},
     size : {Undefined, Num(9)},
     errorlevel : {Undefined, Str("h"), Str("x")}]
FewImages ==
    {[data |-> Rgba(Solid(1, 0)), width |-> 1, height |-> 1, mode |-> "column"],
     [data |-> Rgba(Solid(1, 255)), width |-> 1, height |-> 1, mode |-> "column"],
     [data |-> Rgba(Solid(24, 0)), width |-> 1, height |-> 24, mode |-> "column"]}
FewPulses ==
    [device : {Undefined, Num(1)}, on : {Undefined, Num(2000)},
     off : {Undefined, Num(-10)}]

Next ==
    \/ Initialize(MaxCalls)
    \/ Font(MaxCalls, [type : FontTypes])
    \/ Align(MaxCalls, [value : AlignValues])
    \/ Bold(MaxCalls, [value : Flags])
    \/ Underline(MaxCalls, [value : Flags])
    \/ Italic(MaxCalls, [value : {Undefined}])
    \/ Invert(MaxCalls, [value : Flags])
    \/ Size(MaxCalls, TextSizes)
    \/ Codepage(MaxCalls, [value : Codepages])
    \/ Flush(MaxCalls)
    \/ Barcode(MaxCalls, FewBarcodes)
    \/ Qrcode(MaxCalls, FewQrcodes)
    \/ Image(MaxCalls, FewImages)
    \/ Cut(MaxCalls, [value : CutValues])
    \/ Pulse(MaxCalls, FewPulses)

Spec == Init /\ [][Next]_vars

(***************************************************************************)
(* One call of one method, over a wider set of arguments.                  *)
(***************************************************************************)
\* Barcode values: every text of at most MaxValueLen characters '0' and 'A'.
BarcodeValues == UNION {[1..n -> {48, 65}] : n \in 0..MaxValueLen}
BarcodeSymbologies ==
    {Str(k) : k \in SupportedNames}
    \cup {Str("qr"), Str("UPCA"), Str(""), Str("constructor"),
          Str("toString"), Str("__proto__")}
BarcodeArgs ==
    [value : BarcodeValues, symbology : BarcodeSymbologies,
     height : {0, 40, 255}]

NextBarcode == Barcode(1, BarcodeArgs)
SpecBarcode == Init /\ [][NextBarcode]_vars

QrValues ==
    {TEST} \cup {Text(n) : n \in {0, 1, 255, 256, 257, MaxQrLen - 1, MaxQrLen}}
QrModels ==
    {Undefined, Null, Num(0), Num(1), Num(2), Num(3), Str("constructor")}
QrSizes ==
    {Undefined, NaN, Str("6"), Num(0), Num(1), Num(6), Num(8), Num(9)}
QrErrorLevels ==
    {Undefined, Str("l"), Str("m"), Str("q"), Str("h"), Str("x"), Str("M"),
     Str("toString")}
QrcodeArgs ==
    [value : QrValues, model : QrModels, size : QrSizes,
     errorlevel : QrErrorLevels]

NextQrcode == Qrcode(1, QrcodeArgs)
SpecQrcode == Init /\ [][NextQrcode]_vars

PulseTimes ==
    {Undefined, NaN}
    \cup {Num(n) : n \in (0 - PulseRange)..PulseRange}
    \cup {Num(n) : n \in {-2000, -26, -25, 200, 1264, 1265, 1270, 1274, 1275,
                          2000}}
PulseArgs ==
    [device : {Undefined, Num(0), Num(1), Num(2)}, on : PulseTimes,
     off : PulseTimes]

NextPulse == Pulse(1, PulseArgs)
SpecPulse == Init /\ [][NextPulse]_vars

\* First-channel values of n pixels: all black, all white, all nearly
\* black, one black among white, one white among black.
Patterns(n) ==
    {Solid(n, 0), Solid(n, 255), Solid(n, 1)}
    \cup {OneOf(n, p, 0, 255) : p \in 1..n}
    \cup {OneOf(n, p, 255, 0) : p \in 1..n}

\* Images of every size up to MaxWidth x MaxHeight whose buffer holds
\* width * height pixels, the all-black ones of more than one pixel also
\* with a buffer one pixel short, and a few all-black and all-white images
\* about 256 wide.
ImageArgs ==
    UNION {
        {[data |-> Rgba(r), width |-> w, height |-> h, mode |-> "column"] :
            r \in Patterns(w * h)
                   \cup (IF w * h > 1 THEN {Solid((w * h) - 1, 0)} ELSE {})} :
        w \in 1..MaxWidth, h \in 1..MaxHeight}
    \cup
    UNION {
        {[data |-> Rgba(Solid(w * h, c)), width |-> w, height |-> h,
          mode |-> "column"] : c \in {0, 255}} :
        w \in {255, 256, 257}, h \in {1, 24, 25}}

NextImage == Image(1, ImageArgs)
SpecImage == Init /\ [][NextImage]_vars

(***************************************************************************)
(* Properties                                                              *)
(***************************************************************************)
\* What the last call added to the caller's stream.
Received == SubSeq(stream, Len(prev) + 1, Len(stream))
OrDefault(v, d) == IF IsUndefined(v) THEN d ELSE v
IsTheString(v, str) == IsString(v) /\ v.s = str
IsByte(e) == e \in 0..255

\* C1: barcode with one of the 14 supported symbology names returns an
\* array that starts 0x1b, 0x62, <the symbology's code> and ends with 0x1e,
\* whatever the value; with any other symbology string it throws and
\* returns nothing.
C1_BarcodeContract ==
    last.op = "barcode" =>
        IF last.args.symbology.s \in SupportedNames
        THEN /\ ~last.threw
             /\ Len(Received) >= 4
             /\ SubSeq(Received, 1, 3)
                    = <<27, 98, symbologies[last.args.symbology.s]>>
             /\ Received[Len(Received)] = 30
        ELSE last.threw /\ Received = <<>>

\* The fields of a qrcode call are valid: after the defaults, model is 1 or
\* 2, size an integer in 1..8, errorlevel one of l, m, q, h.
QrFieldsValid(a) ==
    LET m == OrDefault(a.model, Num(2))
        s == OrDefault(a.size, Num(6))
        e == OrDefault(a.errorlevel, Str("m"))
    IN  /\ IsInteger(m) /\ m.n \in {1, 2}
        /\ IsInteger(s) /\ s.n \in 1..8
        /\ IsString(e) /\ e.s \in {"l", "m", "q", "h"}

\* C2: qrcode returns bytes only when its fields are valid; for every other
\* value of any of the three fields it throws and returns nothing.
C2_QrcodeValidation ==
    last.op = "qrcode" =>
        /\ ~last.threw <=> QrFieldsValid(last.args)
        /\ last.threw => Received = <<>>

\* The three field commands of a valid qrcode call, in order.
QrHeader(a) ==
    LET m == OrDefault(a.model, Num(2))
        s == OrDefault(a.size, Num(6))
        e == OrDefault(a.errorlevel, Str("m"))
        code == CASE e.s = "l" -> 0 [] e.s = "m" -> 1 [] e.s = "q" -> 2
                  [] e.s = "h" -> 3
    IN  <<27, 29, 121, 83, 48, m.n, 27, 29, 121, 83, 50, s.n,
          27, 29, 121, 83, 49, code>>

\* The output of a valid qrcode call is header, data command with length
\* bytes lo and hi (those the output holds), payload, print trigger.
QrLayout(a, ret, payload) ==
    /\ Len(ret) = 18 + 8 + Len(payload) + 4
    /\ IsByte(ret[25]) /\ IsByte(ret[26])
    /\ ret = QrHeader(a) \o <<27, 29, 121, 68, 49, 0, ret[25], ret[26]>>
             \o payload \o <<27, 29, 121, 80>>

\* C3 (as stated): every valid qrcode call returns model, size and error
\* level commands, the data command and the print trigger in this order,
\* and the two length bytes give the number of payload bytes:
\* lenLow + 256 * lenHigh = number of payload bytes.
C3_QrcodeLayoutExactLength ==
    (last.op = "qrcode" /\ QrFieldsValid(last.args)) =>
        /\ ~last.threw
        /\ QrLayout(last.args, Received, Encode(last.args.value, "iso8859-1"))
        /\ Received[25] + 256 * Received[26] = Len(last.args.value)

\* C3 (amended): the same layout, the two length bytes giving the number of
\* payload bytes modulo 65536 (the number itself up to 65535 bytes).
C3_QrcodeLayout ==
    (last.op = "qrcode" /\ QrFieldsValid(last.args)) =>
        /\ ~last.threw
        /\ QrLayout(last.args, Received, Encode(last.args.value, "iso8859-1"))
        /\ Received[25] + 256 * Received[26] = Len(last.args.value) % 65536
        /\ Len(last.args.value) <= 65535 =>
               Received[25] + 256 * Received[26] = Len(last.args.value)

\* C3 witness: a call with every field defaulted and a payload whose length
\* needs the high byte has returned.
C3_Witness ==
    /\ last.op = "qrcode" /\ ~last.threw
    /\ IsUndefined(last.args.model) /\ IsUndefined(last.args.size)
    /\ IsUndefined(last.args.errorlevel)
    /\ Len(last.args.value) = 257
    /\ SubSeq(Received, 1, 26)
         = <<27, 29, 121, 83, 48, 2, 27, 29, 121, 83, 50, 6,
             27, 29, 121, 83, 49, 1, 27, 29, 121, 68, 49, 0, 1, 1>>

\* The image output as the claims read it: 2 leading bytes, then per band
\* 4 header bytes, 3 * width data bytes and 2 line-advance bytes, then 3
\* closing bytes.
NumBands(height) == (height + 23) \div 24
BandOffset(width, s) == 2 + s * (6 + 3 * width)
ImageLength(width, height) == 2 + NumBands(height) * (6 + 3 * width) + 3
\* Bit (7 - (r mod 8)) of data byte 3 * x + floor(r / 8) of band s.
EmittedBit(ret, width, s, x, r) ==
    (ret[BandOffset(width, s) + 4 + 3 * x + (r \div 8) + 1]
        \div 2 ^ (7 - (r % 8))) % 2

\* Whether (x, y) has a channel value in the buffer, and that value.
InBuffer(data, width, x, y) == ((width * y) + x) * 4 < Len(data)
Channel(data, width, x, y) == data[((width * y) + x) * 4 + 1]

\* C4 (as stated): a pixel is encoded as a 1 bit if its channel value is 0
\* or if its coordinate lies outside the buffer; the rows of the last band
\* beyond the buffer are all 1.
C4_OutsideBufferIsBlack ==
    last.op = "image" =>
        LET a == last.args IN
        /\ Len(Received) = ImageLength(a.width, a.height)
        /\ \A s \in 0..(NumBands(a.height) - 1), x \in 0..(a.width - 1),
              r \in 0..23 :
              EmittedBit(Received, a.width, s, x, r)
                = IF ~InBuffer(a.data, a.width, x, 24 * s + r) THEN 1
                  ELSE IF Channel(a.data, a.width, x, 24 * s + r) = 0 THEN 1
                  ELSE 0

\* C4 (amended): a pixel is encoded as a 1 bit exactly if its coordinate
\* lies inside the buffer and its channel value there is 0; a coordinate
\* outside the buffer, so every row of the last band beyond the buffer, is
\* encoded as 0.
C4_OutsideBufferIsWhite ==
    last.op = "image" =>
        LET a == last.args IN
        /\ Len(Received) = ImageLength(a.width, a.height)
        /\ \A s \in 0..(NumBands(a.height) - 1), x \in 0..(a.width - 1),
              r \in 0..23 :
              EmittedBit(Received, a.width, s, x, r)
                = IF ~InBuffer(a.data, a.width, x, 24 * s + r) THEN 0
                  ELSE IF Channel(a.data, a.width, x, 24 * s + r) = 0 THEN 1
                  ELSE 0

\* C4 witness: an all-black image 25 rows high has been encoded; its second
\* band holds one row of the buffer and 23 rows beyond it.
C4_Witness ==
    /\ last.op = "image" /\ ~last.threw
    /\ last.args.width = 1 /\ last.args.height = 25
    /\ last.args.data = Rgba(Solid(25, 0))
    /\ SubSeq(Received, 3, 20)
         = <<27, 88, 1, 0, 255, 255, 255, 10, 13,
             27, 88, 1, 0, 128, 0, 0, 10, 13>>

\* C10: for positive width and height image emits ceil(height / 24) bands
\* in increasing order, each 0x1b, 0x58, width low, width high, 3 * width
\* data bytes, line-advance pair, and ends with 0x1b, 0x7a, 0x01; bit
\* (7 - (r mod 8)) of data byte 3 * x + floor(r / 8) of band s is the pixel
\* sampled at (x, 24 * s + r); a 1 x 24 all-black buffer gives one band
\* whose three data bytes are 0xFF.
C10_ImageBands ==
    last.op = "image" =>
        LET a == last.args
            n == Len(Received)
        IN
        /\ ~last.threw
        /\ n = ImageLength(a.width, a.height)
        /\ SubSeq(Received, n - 2, n) = <<27, 122, 1>>
        /\ \A s \in 0..(NumBands(a.height) - 1) :
              LET o == BandOffset(a.width, s) IN
              /\ SubSeq(Received, o + 1, o + 4)
                   = <<27, 88, a.width % 256, (a.width \div 256) % 256>>
              /\ SubSeq(Received, o + 5 + 3 * a.width, o + 6 + 3 * a.width)
                   = <<10, 13>>
              /\ \A x \in 0..(a.width - 1), r \in 0..23 :
                    EmittedBit(Received, a.width, s, x, r)
                      = IF /\ InBuffer(a.data, a.width, x, 24 * s + r)
                           /\ Channel(a.data, a.width, x, 24 * s + r) = 0
                        THEN 1 ELSE 0
        /\ (a.width = 1 /\ a.height = 24 /\ a.data = Rgba(Solid(24, 0))) =>
              Received = <<27, 48, 27, 88, 1, 0, 255, 255, 255, 10, 13,
                           27, 122, 1>>

\* C10 witness: an image 2 wide and 49 high, black but for its last pixel,
\* has been encoded in three bands.
C10_Witness ==
    /\ last.op = "image" /\ ~last.threw
    /\ last.args.width = 2 /\ last.args.height = 49
    /\ last.args.data = Rgba(OneOf(98, 98, 255, 0))
    /\ Len(Received) = 41
    /\ SubSeq(Received, 27, 38)
         = <<27, 88, 2, 0, 128, 0, 0, 0, 0, 0, 10, 13>>

\* Math.round(n / 10) as the claim reads it: the integer q nearest to
\* n / 10, the upper one of two equally near.
NearestTenth(n) ==
    CHOOSE q \in ((n \div 10) - 1)..((n \div 10) + 1) :
        10 * q - 5 <= n /\ n < 10 * q + 5

\* The on and off times of a pulse call after the defaults.
PulseOn(a) == OrDefault(a.on, Num(200))
PulseOff(a) == OrDefault(a.off, Num(200))
PulseSelector(a) ==
    IF IsUndefined(a.device) \/ a.device.n = 0 THEN 7 ELSE 26

\* C5 (as stated): for every numeric on and off each timing byte equals
\* min(127, round(x / 10)) and lies in 0..127; the last byte is 0x07 for
\* device 0 or undefined and 0x1a otherwise.
C5_PulseCapAlways ==
    (last.op = "pulse" /\ IsInteger(PulseOn(last.args))
                       /\ IsInteger(PulseOff(last.args))) =>
        /\ Len(Received) = 5
        /\ Received[3] = MathMin(127, NearestTenth(PulseOn(last.args).n))
        /\ Received[4] = MathMin(127, NearestTenth(PulseOff(last.args).n))
        /\ Received[3] \in 0..127 /\ Received[4] \in 0..127
        /\ Received[5] = PulseSelector(last.args)

\* What C5 (amended) says of one timing byte b computed from the time x.
PulseTimingByte(b, x) ==
    IF IsNaN(x) THEN b = 0
    ELSE /\ b = MathMin(127, NearestTenth(x.n)) % 256
         /\ x.n >= -5 => (b = MathMin(127, NearestTenth(x.n)) /\ b \in 0..127)

\* C5 (amended): for every integer on and off of at least -5 each timing
\* byte equals min(127, round(x / 10)), a cap, and lies in 0..127; below -5
\* the rounded value is negative and the byte is that value modulo 256; a
\* NaN time gives 0; the last byte is 0x07 for device 0 or undefined and
\* 0x1a otherwise.
C5_PulseCap ==
    last.op = "pulse" =>
        /\ ~last.threw
        /\ Len(Received) = 5
        /\ SubSeq(Received, 1, 2) = <<27, 7>>
        /\ PulseTimingByte(Received[3], PulseOn(last.args))
        /\ PulseTimingByte(Received[4], PulseOff(last.args))
        /\ Received[5] = PulseSelector(last.args)

\* C5 witness: pulse(0, 2000, 2000) has returned with both times capped.
C5_Witness ==
    /\ last.op = "pulse"
    /\ last.args = [device |-> Num(0), on |-> Num(2000), off |-> Num(2000)]
    /\ Received = <<27, 7, 127, 127, 7>>

\* C6: every element of every returned array is an integer in 0..255.
C6_AllBytes ==
    \A i \in 1..Len(Received) : IsByte(Received[i])

\* The arguments of a barcode or qrcode call that a validation check
\* refuses: a symbology string that names no property of the table, or,
\* after the defaults, an integer model other than 1 and 2, an integer size
\* outside 1..8, or an error level string that names no property of the
\* table.  (Written from the arguments, not from the outcome of the call.)
FailsValidation(c) ==
    \/ /\ c.op = "barcode"
       /\ IsString(c.args.symbology)
       /\ c.args.symbology.s \notin
              ({"upce", "upca", "ean8", "ean13", "code39", "itf",
                "interleaved-2-of-5", "code128", "code93", "nw-7", "gs1-128",
                "gs1-databar-omni", "gs1-databar-truncated",
                "gs1-databar-limited"} \cup ObjectPrototypeKeys)
    \/ /\ c.op = "qrcode"
       /\ LET m == OrDefault(c.args.model, Num(2))
              s == OrDefault(c.args.size, Num(6))
              e == OrDefault(c.args.errorlevel, Str("m"))
          IN  \/ IsInteger(m) /\ m.n \notin {1, 2}
              \/ IsInteger(s) /\ s.n \notin 1..8
              \/ IsString(e) /\ e.s \notin
                     ({"l", "m", "q", "h"} \cup ObjectPrototypeKeys)

C9_SilentFallback ==
    /\ last.op = "font" =>
          /\ ~last.threw
          /\ Received = <<27, 30, 70,
                          IF IsTheString(last.args.type, "B") THEN 1
                          ELSE IF IsTheString(last.args.type, "C") THEN 2
                          ELSE 0>>
    /\ last.op = "align" =>
          /\ ~last.threw
          /\ Received = <<27, 29, 97,
                          IF IsTheString(last.args.value, "center") THEN 1
                          ELSE IF IsTheString(last.args.value, "right") THEN 2
                          ELSE 0>>
    /\ last.op = "cut" =>
          /\ ~last.threw
          /\ Received = <<27, 100,
                          IF IsTheString(last.args.value, "partial") THEN 1
                          ELSE 0>>

====
